---- MODULE Spec2Model ----
(***************************************************************************)
(* VocabularyBuddy: the App's history and saved words, the                 *)
(* VocabularyLookup component (search, audience level, navigation, history *)
(* click, pronunciation) and the Quiz component.  App renders one of the   *)
(* two components at a time: Spec is the session with VocabularyLookup     *)
(* mounted, QuizSpec the session with Quiz mounted on a words prop.        *)
(* Every provider call is an in-flight operation whose return is a step of *)
(* its own; the code that runs after an await runs in the step of the      *)
(* return that settles the awaited promise.                                *)
(***************************************************************************)
EXTENDS Integers, Sequences, FiniteSets, TLC

VARIABLES
    history,        \* App: WordData[] (newest first)
    savedWords,     \* App: WordData[] (bookmarks)
    view,           \* App: 'lookup' | 'quiz'
    storage,        \* localStorage's 'vocabulary_buddy_saved_words'
    gradeLevel,     \* VocabularyLookup state
    results,
    currentIndex,
    isLoading,
    isUpdating,
    error,
    isPronouncing,  \* the set of words w with isPronouncing[w] === true
    isMounted,      \* the isMounted ref
    searches,       \* handleSearch calls awaiting Promise.all
    refetches,      \* refetchExplanationAndExamples calls awaiting the provider
    prons,          \* handlePronunciation calls awaiting getPronunciation
    lastSettled,    \* the handleSearch call that settled last, and how
    calls,          \* number of provider operations issued, per kind
    pronIssued,     \* number of getPronunciation calls issued, per lower-cased word
    questions,      \* Quiz state
    currentQuestionIndex,
    userAnswers,
    quizState,
    quizError,
    gens,           \* startQuiz calls awaiting Promise.all
    timers          \* pending setTimeout callbacks of handleAnswer

appVars    == <<history, savedWords, view, storage>>
lookupVars == <<gradeLevel, results, currentIndex, isLoading, isUpdating, error,
                isPronouncing, isMounted>>
flightVars == <<searches, refetches, prons>>
ghostVars  == <<lastSettled, calls, pronIssued>>
quizVars   == <<questions, currentQuestionIndex, userAnswers, quizState, quizError,
                gens, timers>>
vars       == <<appVars, lookupVars, flightVars, ghostVars, quizVars>>

----------------------------------------------------------------------------
(* Bounds *)

MaxSearches == 2     \* handleSearch calls that reach the provider, per session
MaxUpdates == 2      \* audience-level refetches and getPronunciation calls issued, per session
MaxQuizStarts == 2   \* startQuiz calls that reach the provider, per session
MaxShift == 1        \* shuffleArray yields the rotations of its input by 0..MaxShift
MaxClick == 2        \* the user presses one of the first MaxClick option buttons
MaxOffShape == 1     \* provider responses that parse but are not what was asked for, per session
MaxTimers == 2       \* setTimeout callbacks of handleAnswer pending at a time

----------------------------------------------------------------------------
(* Values *)

null == "null"                       \* the error states' null
undefined == [undefined |-> TRUE]    \* a missing array element or record
pending == [pending |-> TRUE]        \* a promise not settled yet
NoAudio == "undefined"               \* pronunciationAudio absent

MinQuizWords == 4
QuizSize == 5

Grades == {"5th Grader", "6th Grader"}
InitialGrade == "5th Grader"

toLowerCase(w) == IF w = "Bee" THEN "bee" ELSE w

\* String.prototype.trim on the pieces the search inputs are made of.
trim(s) ==
    CASE s = " bee " -> "bee"
      [] s = "  " -> ""
      [] OTHER -> s

\* The comma-separated inputs typed into the search box, as the sequence of
\* pieces String.prototype.split(',') yields.
RawInputs ==
    { <<"apple", " bee ">>, <<"Bee", "", "bee">>, <<"  ">> }

\* Inputs of one word and of two.
ShortInputs ==
    { <<"apple">>, <<"apple", " bee ">> }

RECURSIVE SelectSeqBy(_, _)
\* Array.prototype.filter with the predicate given as the set of kept values.
SelectSeqBy(s, keep) ==
    IF s = <<>> THEN <<>>
    ELSE IF Head(s) \in keep THEN <<Head(s)>> \o SelectSeqBy(Tail(s), keep)
         ELSE SelectSeqBy(Tail(s), keep)

Reverse(s) == [i \in 1..Len(s) |-> s[Len(s) + 1 - i]]

Range(s) == {s[i] : i \in DOMAIN s}

----------------------------------------------------------------------------
(* The provider (geminiService) *)

\* The difficulty rating the provider gives a word is made for the grade level
\* of the request.
DifficultyFor(g) == IF g = "5th Grader" THEN "Hard" ELSE "Medium"

\* fetchWordData: the parsed JSON object of a well-formed response.
fetchWordData(word, grade) ==
    [ word |-> word,
      definition |-> toLowerCase(word),
      exampleSentences |-> grade,
      simplifiedExplanation |-> grade,
      difficulty |-> DifficultyFor(grade),
      pronunciationAudio |-> NoAudio ]

\* A required field the parsed object does not have.
Missing == "undefined"

\* fetchWordData on a response that parses but lacks the required difficulty:
\* JSON.parse is the only check, so the object is returned as a WordData.
fetchWordDataOffShape(word, grade) ==
    [fetchWordData(word, grade) EXCEPT !.difficulty = Missing]

\* fetchPartialWordData: only the audience-dependent fields.
fetchPartialWordData(word, grade) ==
    [ exampleSentences |-> grade, simplifiedExplanation |-> grade ]

\* The ways a provider call fails: the JSON.parse catch throws an Error with
\* a message; the SDK may reject with a value that is not an Error.
Failures == {"format"}

\* A rejected promise, with the way it failed.
Rejected(f) == [rejected |-> f]

IsRejected(outcome) == "rejected" \in DOMAIN outcome

SearchErrorMessage(f) ==
    IF f = "format" THEN "The API returned an unexpected format."
    ELSE "An unknown error occurred."

RefetchErrorMessage(f) ==
    IF f = "format" THEN "The API returned an unexpected format for the partial update."
    ELSE "Failed to update explanation."

PronounceErrorMessage == "Could not pronounce the word."

\* { ...currentData, ...partialData }
SpreadPartial(rec, partial) ==
    [ rec EXCEPT !.exampleSentences = partial.exampleSentences,
                 !.simplifiedExplanation = partial.simplifiedExplanation ]

\* Promise.all over the settled-or-pending outcomes of the calls it joins.
PromiseAll(got) ==
    IF \E i \in DOMAIN got : IsRejected(got[i]) THEN "rejected"
    ELSE IF \A i \in DOMAIN got : got[i] # pending THEN "resolved"
    ELSE "pending"

----------------------------------------------------------------------------
(* App *)

HasWord(list, w) ==
    \E i \in DOMAIN list : toLowerCase(list[i].word) = toLowerCase(w)

\* addToHistory letting a newly fetched record replace the entry of its word.
addToHistory_latestWins(prevHistory, newWordsData) ==
    LET newWords == SelectSeqBy(newWordsData,
                        {r \in Range(newWordsData) : ~HasWord(prevHistory, r.word)})
        latest(old) ==
            IF HasWord(newWordsData, old.word)
            THEN newWordsData[CHOOSE i \in DOMAIN newWordsData :
                    toLowerCase(newWordsData[i].word) = toLowerCase(old.word)]
            ELSE old
    IN  newWords \o [j \in DOMAIN prevHistory |-> latest(prevHistory[j])]

\* addToHistory: the setHistory updater.
addToHistory(prevHistory, newWordsData) ==
    LET newWords == SelectSeqBy(newWordsData,
                        {r \in Range(newWordsData) : ~HasWord(prevHistory, r.word)})
    IN  newWords \o prevHistory

\* updateHistoryItem moving the updated record to the front.
updateHistoryItem_toFront(list, updatedWord) ==
    IF HasWord(list, updatedWord.word)
    THEN <<updatedWord>> \o
         SelectSeqBy(list, {w \in Range(list) :
                               toLowerCase(w.word) # toLowerCase(updatedWord.word)})
    ELSE list

\* updateHistoryItem: the updater applied to history and to savedWords.
updateHistoryItem(list, updatedWord) ==
    [i \in DOMAIN list |->
        IF toLowerCase(list[i].word) = toLowerCase(updatedWord.word)
        THEN updatedWord ELSE list[i]]

\* toggleSaveWord comparing the words as they are spelled.
toggleSaveWord_caseSensitive(prev, word) ==
    IF \E i \in DOMAIN prev : prev[i].word = word.word
    THEN SelectSeqBy(prev, {w \in Range(prev) : w.word # word.word})
    ELSE Append(prev, word)

\* toggleSaveWord: the setSavedWords updater.
toggleSaveWord(prev, word) ==
    IF HasWord(prev, word.word)
    THEN SelectSeqBy(prev, {w \in Range(prev) : toLowerCase(w.word) # toLowerCase(word.word)})
    ELSE Append(prev, word)

\* The five words saved in an earlier session.
StoredSavedWords ==
    << fetchWordData("apple", InitialGrade), fetchWordData("bee", InitialGrade),
       fetchWordData("cat", InitialGrade), fetchWordData("dog", InitialGrade),
       fetchWordData("egg", InitialGrade) >>

\* localStorage.getItem for a key that was never written.
NoItem == [kind |-> "none"]

\* A stored string that is not JSON.
NotJSON == [kind |-> "text"]

\* JSON.stringify: the stored string, as the value it is the JSON text of.
JSONstringify(value) == [kind |-> "json", value |-> value]

\* A JSON object that is not a WordData: it has no word.
NotAWord == [id |-> "1"]

\* What the storage key may hold at startup.
StorageContents ==
    { NoItem, NotJSON, JSONstringify(<<NotAWord>>),
      JSONstringify(SubSeq(StoredSavedWords, 1, 2)) }

\* The initializer of the savedWords state: JSON.parse of the stored string,
\* the empty array when there is none or JSON.parse throws.
loadSavedWords(saved) ==
    IF saved.kind = "none" THEN <<>>
    ELSE IF saved.kind = "json" THEN saved.value
    ELSE <<>>

\* The effect on savedWords: the array is written back, serialized (the
\* records here carry no pronunciationAudioBuffer to strip).
saveWords(saved) == JSONstringify(saved)

\* Whether a parsed JSON value has the word every updater of App reads.
IsWordData(item) == "word" \in DOMAIN item

\* The records the callbacks of App are called with.
AppRecords == {fetchWordData(w, g) : w \in {"apple", "bee", "Bee"}, g \in Grades}

\* The arrays addToHistory is called with: the records one search fetches.
AppBatches ==
    { <<fetchWordData("apple", g), fetchWordData("bee", g)>> : g \in Grades } \cup
    { <<fetchWordData("Bee", g), fetchWordData("bee", g)>> : g \in Grades }

\* App at startup, on any content of the storage key, before its effect.
AppInitial ==
    /\ history = <<>>
    /\ view = "lookup"
    /\ storage \in StorageContents
    /\ savedWords = loadSavedWords(storage)

\* The effect on savedWords has run for the savedWords of this render.
Persisted == storage = saveWords(savedWords)

\* The effect on savedWords after the first render.
SavedWordsEffect ==
    /\ ~Persisted
    /\ storage' = saveWords(savedWords)
    /\ UNCHANGED <<history, savedWords, view, lookupVars, flightVars, ghostVars, quizVars>>

\* The addToHistory callback.
AddToHistory(newWordsData) ==
    /\ Persisted
    /\ history' = addToHistory(history, newWordsData)
    /\ UNCHANGED <<savedWords, view, storage, lookupVars, flightVars, ghostVars, quizVars>>

\* The updateHistoryItem callback, with the effect on savedWords. An item
\* without a word makes the updater throw, and React takes the App down.
UpdateHistoryItem(updatedWord) ==
    /\ Persisted
    /\ \A i \in DOMAIN savedWords : IsWordData(savedWords[i])
    /\ history' = updateHistoryItem(history, updatedWord)
    /\ savedWords' = updateHistoryItem(savedWords, updatedWord)
    /\ storage' = saveWords(savedWords')
    /\ UNCHANGED <<view, lookupVars, flightVars, ghostVars, quizVars>>

\* The toggleSaveWord callback, with the effect on savedWords.
ToggleSaveWord(word) ==
    /\ Persisted
    /\ \A i \in DOMAIN savedWords : IsWordData(savedWords[i])
    /\ savedWords' = toggleSaveWord(savedWords, word)
    /\ storage' = saveWords(savedWords')
    /\ UNCHANGED <<history, view, lookupVars, flightVars, ghostVars, quizVars>>

----------------------------------------------------------------------------
(* VocabularyLookup *)

\* results[currentIndex], with JavaScript's undefined outside the array.
ElementAt(list, index) ==
    IF index + 1 \in DOMAIN list THEN list[index + 1] ELSE undefined

currentWordData == ElementAt(results, currentIndex)

\* newResults[index] = value on a copy of the array: assigning past the end
\* extends the array and leaves holes.
AssignAt(list, index, value) ==
    [i \in 1..(IF index + 1 > Len(list) THEN index + 1 ELSE Len(list)) |->
        IF i = index + 1 THEN value
        ELSE IF i \in DOMAIN list THEN list[i] ELSE undefined]

\* prev.map((item, index) => index === target ? updatedData : item)
MapReplaceAt(list, target, updatedData) ==
    [i \in DOMAIN list |->
        IF i = target + 1 /\ list[i] # undefined THEN updatedData ELSE list[i]]

\* wordsToSearch.split(',').map(w => w.trim()).filter(Boolean)
SplitWords(raw) ==
    LET trimmed == [i \in DOMAIN raw |-> trim(raw[i])]
    IN  SelectSeqBy(trimmed, Range(trimmed) \ {""})

\* !wordsToSearch.trim(): the whole input is blank.
IsBlank(raw) == Len(raw) = 1 /\ trim(raw[1]) = ""

LookupInitial ==
    /\ gradeLevel = InitialGrade
    /\ results = <<>>
    /\ currentIndex = 0
    /\ isLoading = FALSE
    /\ isUpdating = FALSE
    /\ error = null
    /\ isPronouncing = {}
    /\ isMounted = FALSE

\* useState<Record<number, string>>({})
NoAnswers == [i \in {} |-> ""]

QuizInitial ==
    /\ questions = <<>>
    /\ currentQuestionIndex = 0
    /\ userAnswers = NoAnswers
    /\ quizState = "idle"
    /\ quizError = null
    /\ gens = {}
    /\ timers = <<>>

Init ==
    /\ history = <<>>
    /\ view = "lookup"
    /\ storage = JSONstringify(StoredSavedWords)
    /\ savedWords = loadSavedWords(storage)
    /\ LookupInitial
    /\ QuizInitial
    /\ searches = {}
    /\ refetches = {}
    /\ prons = {}
    /\ lastSettled = [id |-> 0, outcome |-> "none"]
    /\ calls = [search |-> 0, refetch |-> 0, quiz |-> 0, offShape |-> 0]
    /\ pronIssued = [w \in {"apple", "bee"} |-> 0]

\* The Quiz component mounted on a words prop of three or of five words.
QuizInit ==
    /\ history = <<>>
    /\ view = "quiz"
    /\ storage \in {JSONstringify(SubSeq(StoredSavedWords, 1, 3)),
                     JSONstringify(StoredSavedWords)}
    /\ savedWords = loadSavedWords(storage)
    /\ LookupInitial
    /\ QuizInitial
    /\ searches = {}
    /\ refetches = {}
    /\ prons = {}
    /\ lastSettled = [id |-> 0, outcome |-> "none"]
    /\ calls = [search |-> 0, refetch |-> 0, quiz |-> 0, offShape |-> 0]
    /\ pronIssued = [w \in {"apple", "bee"} |-> 0]

\* VocabularyLookup is rendered and its first effect has run.
LookupShown == view = "lookup" /\ isMounted

\* The first run of the gradeLevel effect: it only sets the isMounted ref.
LookupMountEffect ==
    /\ view = "lookup"
    /\ ~isMounted
    /\ isMounted' = TRUE
    /\ UNCHANGED <<appVars, gradeLevel, results, currentIndex, isLoading, isUpdating,
                   error, isPronouncing, flightVars, ghostVars, quizVars>>

\* handleSearch up to its await; an input without words is joined at once.
handleSearch(raw) ==
    /\ LookupShown
    /\ IF IsBlank(raw)
       THEN UNCHANGED vars
       ELSE /\ calls.search < MaxSearches
            /\ error' = null
            /\ currentIndex' = 0
            /\ LET words == SplitWords(raw)
                   id == calls.search + 1
               IN  IF words = <<>>
                   THEN /\ results' = <<>>
                        /\ isLoading' = FALSE
                        /\ history' = addToHistory(history, <<>>)
                        /\ searches' = searches
                        /\ lastSettled' = [id |-> id, outcome |-> "resolved"]
                   ELSE /\ results' = <<>>
                        /\ isLoading' = TRUE
                        /\ history' = history
                        /\ searches' = {[t EXCEPT !.overlapped = TRUE] : t \in searches} \cup
                              {[id |-> id, words |-> words, grade |-> gradeLevel,
                                got |-> [i \in DOMAIN words |-> pending],
                                overlapped |-> searches # {}]}
                        /\ lastSettled' = lastSettled
            /\ calls' = [calls EXCEPT !.search = @ + 1]
            /\ UNCHANGED <<savedWords, view, storage, gradeLevel, isUpdating,
                           isPronouncing, isMounted, refetches, prons, pronIssued,
                           quizVars>>

\* handleSearch keeping, on a failure, the records its other calls fetched.
SearchSettles_partial(s, got) ==
    LET status == PromiseAll(got)
        failure == CHOOSE f \in Failures : \E i \in DOMAIN got : got[i] = Rejected(f)
        fetched == SelectSeqBy(got, {r \in Range(got) : r # pending /\ ~IsRejected(r)})
    IN  /\ searches' = searches \ {s}
        /\ lastSettled' = [id |-> s.id, outcome |-> status]
        /\ history' = addToHistory(history, fetched)
        /\ results' = fetched
        /\ error' = IF status = "resolved" THEN error ELSE SearchErrorMessage(failure)
        /\ isLoading' = FALSE

\* handleSearch showing only the records of the search issued last.
SearchSettles_latestIssued(s, got) ==
    LET status == PromiseAll(got)
        failure == CHOOSE f \in Failures : \E i \in DOMAIN got : got[i] = Rejected(f)
    IN  /\ searches' = searches \ {s}
        /\ lastSettled' = [id |-> s.id, outcome |-> status]
        /\ IF status = "resolved"
           THEN /\ history' = addToHistory(history, got)
                /\ results' = IF s.id = calls.search THEN got ELSE results
                /\ error' = error
           ELSE /\ history' = history
                /\ results' = results
                /\ error' = SearchErrorMessage(failure)
        /\ isLoading' = FALSE

\* One fetchWordData call of a search returns; when that settles the search's
\* Promise.all the rest of handleSearch runs.
SearchSettles(s, got) ==
    LET status == PromiseAll(got)
        failure == CHOOSE f \in Failures : \E i \in DOMAIN got : got[i] = Rejected(f)
    IN  /\ searches' = searches \ {s}
        /\ lastSettled' = [id |-> s.id, outcome |-> status]
        /\ IF status = "resolved"
           THEN /\ history' = addToHistory(history, got)
                /\ results' = got
                /\ error' = error
           ELSE /\ history' = history
                /\ results' = results
                /\ error' = SearchErrorMessage(failure)
        /\ isLoading' = FALSE

FetchWordDataReturns(s, i, outcome) ==
    /\ s \in searches
    /\ i \in DOMAIN s.got
    /\ s.got[i] = pending
    /\ LET got == [s.got EXCEPT ![i] = outcome]
       IN  IF PromiseAll(got) = "pending"
           THEN /\ searches' = (searches \ {s}) \cup {[s EXCEPT !.got = got]}
                /\ UNCHANGED <<history, results, error, isLoading, lastSettled>>
           ELSE SearchSettles(s, got)
    /\ UNCHANGED <<savedWords, view, storage, gradeLevel, currentIndex, isUpdating,
                   isPronouncing, isMounted, refetches, prons, pronIssued, quizVars>>

FetchWordDataSucceeds ==
    /\ \E s \in searches : \E i \in DOMAIN s.got :
          FetchWordDataReturns(s, i, fetchWordData(s.words[i], s.grade))
    /\ UNCHANGED calls

FetchWordDataOffShape ==
    /\ calls.offShape < MaxOffShape
    /\ \E s \in searches : \E i \in DOMAIN s.got :
          FetchWordDataReturns(s, i, fetchWordDataOffShape(s.words[i], s.grade))
    /\ calls' = [calls EXCEPT !.offShape = @ + 1]

FetchWordDataFails ==
    /\ \E s \in searches : \E i \in DOMAIN s.got : \E f \in Failures :
          FetchWordDataReturns(s, i, Rejected(f))
    /\ UNCHANGED calls

\* The provider calls issued so far whose return updates a record.
UpdatesIssued == calls.refetch + pronIssued["apple"] + pronIssued["bee"]

\* setGradeLevel from the select, and the gradeLevel effect it triggers: the
\* effect's closure holds the results and currentIndex of that render.
ChangeGradeLevel(g) ==
    /\ LookupShown
    /\ g # gradeLevel
    /\ gradeLevel' = g
    /\ IF currentWordData # undefined
       THEN /\ UpdatesIssued < MaxUpdates
            /\ isUpdating' = TRUE
            /\ error' = null
            /\ refetches' = refetches \cup
                  {[id |-> calls.refetch + 1, word |-> currentWordData.word, grade |-> g,
                    currentData |-> currentWordData, currentIndex |-> currentIndex]}
            /\ calls' = [calls EXCEPT !.refetch = @ + 1]
       ELSE UNCHANGED <<isUpdating, error, refetches, calls>>
    /\ UNCHANGED <<appVars, results, currentIndex, isLoading, isPronouncing, isMounted,
                   searches, prons, lastSettled, pronIssued, quizVars>>

\* refetchExplanationAndExamples without its finally.
FetchPartialReturns_noFinally(op, outcome) ==
    /\ op \in refetches
    /\ refetches' = refetches \ {op}
    /\ IF IsRejected(outcome)
       THEN /\ error' = RefetchErrorMessage(outcome.rejected)
            /\ isUpdating' = isUpdating
            /\ UNCHANGED <<results, history, savedWords, storage>>
       ELSE LET updatedData == SpreadPartial(op.currentData, outcome)
            IN  /\ results' = MapReplaceAt(results, op.currentIndex, updatedData)
                /\ history' = updateHistoryItem(history, updatedData)
                /\ savedWords' = updateHistoryItem(savedWords, updatedData)
                /\ storage' = saveWords(savedWords')
                /\ error' = error
                /\ isUpdating' = FALSE
    /\ UNCHANGED <<view, gradeLevel, currentIndex, isLoading, isPronouncing, isMounted,
                   searches, prons, ghostVars, quizVars>>

\* fetchPartialWordData returns and refetchExplanationAndExamples resumes.
FetchPartialReturns(op, outcome) ==
    /\ op \in refetches
    /\ refetches' = refetches \ {op}
    /\ IF IsRejected(outcome)
       THEN /\ error' = RefetchErrorMessage(outcome.rejected)
            /\ UNCHANGED <<results, history, savedWords, storage>>
       ELSE LET updatedData == SpreadPartial(op.currentData, outcome)
            IN  /\ results' = MapReplaceAt(results, op.currentIndex, updatedData)
                /\ history' = updateHistoryItem(history, updatedData)
                /\ savedWords' = updateHistoryItem(savedWords, updatedData)
                /\ storage' = saveWords(savedWords')
                /\ error' = error
    /\ isUpdating' = FALSE
    /\ UNCHANGED <<view, gradeLevel, currentIndex, isLoading, isPronouncing, isMounted,
                   searches, prons, ghostVars, quizVars>>

FetchPartialSucceeds ==
    \E op \in refetches : FetchPartialReturns(op, fetchPartialWordData(op.word, op.grade))

FetchPartialFails ==
    \E op \in refetches : \E f \in Failures : FetchPartialReturns(op, Rejected(f))

\* findIndex over the reversed history; -1 when no entry matches.
FindIndex(list, word) ==
    IF HasWord(list, word)
    THEN (CHOOSE i \in DOMAIN list :
            /\ toLowerCase(list[i].word) = toLowerCase(word)
            /\ \A j \in 1..(i - 1) : toLowerCase(list[j].word) # toLowerCase(word)) - 1
    ELSE -1

\* The words handleHistoryClick is called with: those of the history
\* buttons, and words History may not hold.
ClickedWords == {"apple", "bee", "Bee"}

\* handleHistoryClick showing History as it is, newest first.
handleHistoryClick_newestFirst(word) ==
    /\ LookupShown
    /\ LET clickedWordIndex == FindIndex(history, word)
       IN  IF clickedWordIndex # -1
           THEN /\ results' = history
                /\ currentIndex' = clickedWordIndex
                /\ isLoading' = FALSE
                /\ error' = null
           ELSE UNCHANGED <<results, currentIndex, isLoading, error>>
    /\ UNCHANGED <<appVars, gradeLevel, isUpdating, isPronouncing, isMounted,
                   flightVars, ghostVars, quizVars>>

\* handleHistoryClick.
handleHistoryClick(word) ==
    /\ LookupShown
    /\ LET chronologicalHistory == Reverse(history)
           clickedWordIndex == FindIndex(chronologicalHistory, word)
       IN  IF clickedWordIndex # -1
           THEN /\ results' = chronologicalHistory
                /\ currentIndex' = clickedWordIndex
                /\ isLoading' = FALSE
                /\ error' = null
           ELSE UNCHANGED <<results, currentIndex, isLoading, error>>
    /\ UNCHANGED <<appVars, gradeLevel, isUpdating, isPronouncing, isMounted,
                   flightVars, ghostVars, quizVars>>

\* The Previous and Next buttons, rendered with the current record when
\* there is more than one result.
Navigate(step) ==
    /\ LookupShown
    /\ currentWordData # undefined
    /\ Len(results) > 1
    /\ currentIndex' = (currentIndex + step + Len(results)) % Len(results)
    /\ UNCHANGED <<appVars, gradeLevel, results, isLoading, isUpdating, error,
                   isPronouncing, isMounted, flightVars, ghostVars, quizVars>>

\* handlePronunciation up to its await, from the button of the current record
\* (disabled while isPronouncing[word]). With audio on the record nothing is
\* fetched and the handler runs to its end.
handlePronunciation ==
    /\ LookupShown
    /\ currentWordData # undefined
    /\ currentWordData.word \notin isPronouncing
    /\ IF currentWordData.pronunciationAudio # NoAudio
       THEN UNCHANGED <<isPronouncing, prons, pronIssued>>
       ELSE /\ UpdatesIssued < MaxUpdates
            /\ isPronouncing' = isPronouncing \cup {currentWordData.word}
            /\ prons' = prons \cup
                  {[word |-> currentWordData.word,
                    currentWordData |-> currentWordData, currentIndex |-> currentIndex]}
            /\ pronIssued' = [pronIssued EXCEPT ![toLowerCase(currentWordData.word)] = @ + 1]
    /\ UNCHANGED <<appVars, gradeLevel, results, currentIndex, isLoading, isUpdating,
                   error, isMounted, searches, refetches, lastSettled, calls, quizVars>>

\* getPronunciation returns and handlePronunciation resumes.
GetPronunciationReturns(op, outcome) ==
    /\ op \in prons
    /\ prons' = prons \ {op}
    /\ IF IsRejected(outcome)
       THEN /\ error' = PronounceErrorMessage
            /\ UNCHANGED <<results, history, savedWords, storage>>
       ELSE LET updatedWord == [op.currentWordData EXCEPT !.pronunciationAudio = outcome.audio]
            IN  /\ results' = AssignAt(results, op.currentIndex, updatedWord)
                /\ history' = updateHistoryItem(history, updatedWord)
                /\ savedWords' = updateHistoryItem(savedWords, updatedWord)
                /\ storage' = saveWords(savedWords')
                /\ error' = error
    /\ isPronouncing' = isPronouncing \ {op.word}
    /\ UNCHANGED <<view, gradeLevel, currentIndex, isLoading, isUpdating, isMounted,
                   searches, refetches, ghostVars, quizVars>>

GetPronunciationSucceeds ==
    \E op \in prons : GetPronunciationReturns(op, [audio |-> "pcm16"])

GetPronunciationFails ==
    \E op \in prons : GetPronunciationReturns(op, Rejected("noaudio"))

----------------------------------------------------------------------------
(* Quiz *)

words == savedWords    \* <Quiz words={savedWords} />

Rotate(s, k) == [i \in 1..Len(s) |-> s[((i - 1 + k) % Len(s)) + 1]]

\* shuffleArray: [...array].sort(() => Math.random() - 0.5), one of the
\* orders of the array.
shuffleArray(array) ==
    IF array = <<>> THEN {<<>>} ELSE {Rotate(array, k) : k \in 0..MaxShift}

\* array.slice(0, n)
Slice(array, n) == SubSeq(array, 1, IF Len(array) < n THEN Len(array) ELSE n)

\* generateQuizQuestion: the parsed JSON object of the response, with the
\* target's word and explanation.
generateQuizQuestion(targetWord, allWords) ==
    [ question |-> "What is the definition?",
      options |-> <<"distractor 1", targetWord.definition, "distractor 2", "distractor 3">>,
      correctAnswer |-> targetWord.definition,
      word |-> targetWord.word,
      explanation |-> targetWord.simplifiedExplanation ]

\* generateQuizQuestion on a response that parses but is not what the prompt
\* asked for: JSON.parse is the only check, so the object is returned with
\* word and explanation added. This one has three options, two of them
\* equal and none of them the answer.
generateQuizQuestionOffShape(targetWord, allWords) ==
    [ question |-> "What is the definition?",
      options |-> <<"distractor 1", "distractor 1", "distractor 2">>,
      correctAnswer |-> targetWord.definition,
      word |-> targetWord.word,
      explanation |-> targetWord.simplifiedExplanation ]

\* generateQuizQuestion on a response with four distinct options, the answer
\* among them, one of the distractors being the empty string.
generateQuizQuestionBlankOption(targetWord, allWords) ==
    [ question |-> "What is the definition?",
      options |-> <<"", targetWord.definition, "distractor 2", "distractor 3">>,
      correctAnswer |-> targetWord.definition,
      word |-> targetWord.word,
      explanation |-> targetWord.simplifiedExplanation ]

TooFewWordsMessage == "You need at least 4 saved words to start a quiz."

QuizErrorMessage(f) ==
    IF f = "format" THEN "Failed to generate a valid quiz question."
    ELSE "Failed to generate quiz."

\* startQuiz without its check of words.length.
startQuiz_unguarded(by) ==
    /\ calls.quiz < MaxQuizStarts
    /\ quizState' = "generating"
    /\ quizError' = null
    /\ userAnswers' = NoAnswers
    /\ currentQuestionIndex' = 0
    /\ questions' = <<>>
    /\ \E shuffledWords \in shuffleArray(words) :
          LET quizWords == Slice(shuffledWords, QuizSize)
          IN  gens' = gens \cup
                 {[id |-> calls.quiz + 1, by |-> by, quizWords |-> quizWords,
                   allWords |-> words,
                   got |-> [i \in DOMAIN quizWords |-> pending]]}
    /\ calls' = [calls EXCEPT !.quiz = @ + 1]
    /\ UNCHANGED <<appVars, lookupVars, flightVars, lastSettled, pronIssued, timers>>

\* startQuiz up to its await; by names the caller, the effect or a button.
startQuiz(by) ==
    /\ IF Len(words) < MinQuizWords
       THEN /\ quizError' = TooFewWordsMessage
            /\ UNCHANGED <<questions, currentQuestionIndex, userAnswers, quizState,
                           gens, calls>>
       ELSE /\ calls.quiz < MaxQuizStarts
            /\ quizState' = "generating"
            /\ quizError' = null
            /\ userAnswers' = NoAnswers
            /\ currentQuestionIndex' = 0
            /\ questions' = <<>>
            /\ \E shuffledWords \in shuffleArray(words) :
                  LET quizWords == Slice(shuffledWords, QuizSize)
                  IN  gens' = gens \cup
                         {[id |-> calls.quiz + 1, by |-> by, quizWords |-> quizWords,
                           allWords |-> words,
                           got |-> [i \in DOMAIN quizWords |-> pending]]}
            /\ calls' = [calls EXCEPT !.quiz = @ + 1]
    /\ UNCHANGED <<appVars, lookupVars, flightVars, lastSettled, pronIssued, timers>>

\* The effect without !error among its conditions.
AutoStartEffect_ignoringError ==
    /\ view = "quiz"
    /\ Len(words) >= MinQuizWords
    /\ quizState = "idle"
    /\ Len(questions) = 0
    /\ startQuiz("effect")

\* The effect that starts the quiz by itself.
AutoStartEffect ==
    /\ view = "quiz"
    /\ Len(words) >= MinQuizWords
    /\ quizState = "idle"
    /\ Len(questions) = 0
    /\ quizError = null
    /\ startQuiz("effect")

\* The Try Again button, rendered in idle with an error and four words.
TryAgain ==
    /\ view = "quiz"
    /\ Len(words) >= MinQuizWords
    /\ quizState = "idle"
    /\ quizError # null
    /\ startQuiz("click")

\* startQuiz called on a Quiz whose words prop has fewer than four words.
StartWithTooFewWords ==
    /\ view = "quiz"
    /\ Len(words) < MinQuizWords
    /\ quizState = "idle"
    /\ startQuiz("call")

\* The choices of shuffleArray for the options of every question.
RECURSIVE ShuffledOptions(_)
ShuffledOptions(generatedQuestions) ==
    IF generatedQuestions = <<>> THEN {<<>>}
    ELSE { <<[Head(generatedQuestions) EXCEPT !.options = o]>> \o rest :
              o \in shuffleArray(Head(generatedQuestions).options),
              rest \in ShuffledOptions(Tail(generatedQuestions)) }

\* startQuiz showing, on a failure, the questions that were generated.
QuizSettles_partial(g, got) ==
    LET generated == SelectSeqBy(got, {q \in Range(got) : q # pending /\ ~IsRejected(q)})
    IN  /\ gens' = gens \ {g}
        /\ questions' \in ShuffledOptions(generated)
        /\ quizState' = IF generated = <<>> THEN "idle" ELSE "active"
        /\ quizError' = quizError

\* The rest of startQuiz, once its Promise.all has settled.
QuizSettles(g, got) ==
    LET failure == CHOOSE f \in Failures : \E i \in DOMAIN got : got[i] = Rejected(f)
    IN  /\ gens' = gens \ {g}
        /\ IF PromiseAll(got) = "resolved"
           THEN /\ questions' \in ShuffledOptions(got)
                /\ quizState' = "active"
                /\ quizError' = quizError
           ELSE /\ quizError' = QuizErrorMessage(failure)
                /\ quizState' = "idle"
                /\ questions' = questions

\* One generateQuizQuestion call of a quiz returns.
GenerateQuizQuestionReturns(g, i, outcome) ==
    /\ g \in gens
    /\ i \in DOMAIN g.got
    /\ g.got[i] = pending
    /\ LET got == [g.got EXCEPT ![i] = outcome]
       IN  IF PromiseAll(got) = "pending"
           THEN /\ gens' = (gens \ {g}) \cup {[g EXCEPT !.got = got]}
                /\ UNCHANGED <<questions, quizState, quizError>>
           ELSE QuizSettles(g, got)
    /\ UNCHANGED <<appVars, lookupVars, flightVars, lastSettled, pronIssued,
                   currentQuestionIndex, userAnswers, timers>>

GenerateQuizQuestionSucceeds ==
    /\ \E g \in gens : \E i \in DOMAIN g.got :
          GenerateQuizQuestionReturns(g, i, generateQuizQuestion(g.quizWords[i], g.allWords))
    /\ UNCHANGED calls

GenerateQuizQuestionOffShape ==
    /\ calls.offShape < MaxOffShape
    /\ \E g \in gens : \E i \in DOMAIN g.got :
          GenerateQuizQuestionReturns(g, i,
              generateQuizQuestionOffShape(g.quizWords[i], g.allWords))
    /\ calls' = [calls EXCEPT !.offShape = @ + 1]

GenerateQuizQuestionBlankOption ==
    /\ calls.offShape < MaxOffShape
    /\ \E g \in gens : \E i \in DOMAIN g.got :
          GenerateQuizQuestionReturns(g, i,
              generateQuizQuestionBlankOption(g.quizWords[i], g.allWords))
    /\ calls' = [calls EXCEPT !.offShape = @ + 1]

GenerateQuizQuestionFails ==
    /\ \E g \in gens : \E i \in DOMAIN g.got : \E f \in Failures :
          GenerateQuizQuestionReturns(g, i, Rejected(f))
    /\ UNCHANGED calls

\* userAnswers[index], undefined and the empty string being falsy.
Answered(index) == index \in DOMAIN userAnswers /\ userAnswers[index] # ""

\* The options of the buttons rendered for questions[currentQuestionIndex]
\* that the user presses.
CurrentOptions ==
    IF currentQuestionIndex + 1 \in DOMAIN questions
    THEN LET options == questions[currentQuestionIndex + 1].options
         IN  {options[b] : b \in DOMAIN options \cap 1..MaxClick}
    ELSE {}

\* handleAnswer recording every answer it is given.
handleAnswer_again(answer) ==
    /\ view = "quiz"
    /\ quizState = "active"
    /\ Len(questions) > 0
    /\ userAnswers' = [i \in DOMAIN userAnswers \cup {currentQuestionIndex} |->
                          IF i = currentQuestionIndex THEN answer ELSE userAnswers[i]]
    /\ timers' = Append(timers, [currentQuestionIndex |-> currentQuestionIndex,
                                 length |-> Len(questions)])
    /\ UNCHANGED <<appVars, lookupVars, flightVars, ghostVars, questions,
                   currentQuestionIndex, quizState, quizError, gens>>

\* handleAnswer, called with the option of a button of the current question;
\* its setTimeout callback holds the currentQuestionIndex and the questions
\* of that render.
handleAnswer(answer) ==
    /\ view = "quiz"
    /\ quizState = "active"
    /\ Len(questions) > 0
    /\ IF Answered(currentQuestionIndex)
       THEN UNCHANGED <<userAnswers, timers>>
       ELSE /\ Len(timers) < MaxTimers
            /\ userAnswers' = [i \in DOMAIN userAnswers \cup {currentQuestionIndex} |->
                                  IF i = currentQuestionIndex THEN answer ELSE userAnswers[i]]
            /\ timers' = Append(timers, [currentQuestionIndex |-> currentQuestionIndex,
                                         length |-> Len(questions)])
    /\ UNCHANGED <<appVars, lookupVars, flightVars, ghostVars, questions,
                   currentQuestionIndex, quizState, quizError, gens>>

\* A setTimeout callback of handleAnswer runs.
TimerFires(k) ==
    /\ k \in DOMAIN timers
    /\ timers' = [i \in 1..(Len(timers) - 1) |-> IF i < k THEN timers[i] ELSE timers[i + 1]]
    /\ IF timers[k].currentQuestionIndex < timers[k].length - 1
       THEN /\ currentQuestionIndex' = currentQuestionIndex + 1
            /\ quizState' = quizState
       ELSE /\ quizState' = "finished"
            /\ currentQuestionIndex' = currentQuestionIndex
    /\ UNCHANGED <<appVars, lookupVars, flightVars, ghostVars, questions, userAnswers,
                   quizError, gens>>

RECURSIVE ScoreFrom(_)
\* The forEach of calculateScore, from the question at index on.
ScoreFrom(index) ==
    IF index >= Len(questions) THEN 0
    ELSE (IF index \in DOMAIN userAnswers
             /\ userAnswers[index] = questions[index + 1].correctAnswer
          THEN 1 ELSE 0) + ScoreFrom(index + 1)

\* calculateScore counting the questions that have an answer.
calculateScore_answered == Cardinality(DOMAIN userAnswers)

calculateScore == ScoreFrom(0)

\* Math.round of the quotient num / den, den > 0: the nearest integer, a
\* half going up.
MathRound(num, den) == (2 * num + den) \div (2 * den)

\* The percentage of the finished screen: Math.round((score / questions.length) * 100).
percentage == MathRound(calculateScore * 100, Len(questions))

\* The Take Another Quiz button leaving the questions in place.
TakeAnotherQuiz_keepingQuestions ==
    /\ view = "quiz"
    /\ quizState = "finished"
    /\ quizState' = "idle"
    /\ quizError' = null
    /\ UNCHANGED <<appVars, lookupVars, flightVars, ghostVars, questions,
                   currentQuestionIndex, userAnswers, gens, timers>>

\* The Take Another Quiz button of the finished screen.
TakeAnotherQuiz ==
    /\ view = "quiz"
    /\ quizState = "finished"
    /\ questions' = <<>>
    /\ quizState' = "idle"
    /\ quizError' = null
    /\ UNCHANGED <<appVars, lookupVars, flightVars, ghostVars, currentQuestionIndex,
                   userAnswers, gens, timers>>

----------------------------------------------------------------------------
(* Specifications *)

Next ==
    \/ LookupMountEffect
    \/ \E raw \in RawInputs : handleSearch(raw)
    \/ FetchWordDataSucceeds
    \/ FetchWordDataFails
    \/ \E g \in Grades : ChangeGradeLevel(g)
    \/ FetchPartialSucceeds
    \/ FetchPartialFails
    \/ \E word \in ClickedWords : handleHistoryClick(word)
    \/ \E step \in {-1, 1} : Navigate(step)
    \/ handlePronunciation
    \/ GetPronunciationSucceeds
    \/ GetPronunciationFails

Spec == Init /\ [][Next]_vars

\* The lookup session with searches for one word and for two.
IndexNext ==
    \/ LookupMountEffect
    \/ \E raw \in ShortInputs : handleSearch(raw)
    \/ FetchWordDataSucceeds
    \/ FetchWordDataFails
    \/ \E g \in Grades : ChangeGradeLevel(g)
    \/ FetchPartialSucceeds
    \/ FetchPartialFails
    \/ \E word \in ClickedWords : handleHistoryClick(word)
    \/ \E step \in {-1, 1} : Navigate(step)
    \/ handlePronunciation
    \/ GetPronunciationSucceeds
    \/ GetPronunciationFails

IndexSpec == Init /\ [][IndexNext]_vars

\* The lookup session of searches, history clicks and navigation, with a
\* provider that may also answer fetchWordData off shape.
FormatNext ==
    \/ LookupMountEffect
    \/ \E raw \in RawInputs : handleSearch(raw)
    \/ FetchWordDataSucceeds
    \/ FetchWordDataOffShape
    \/ FetchWordDataFails
    \/ \E word \in ClickedWords : handleHistoryClick(word)
    \/ \E step \in {-1, 1} : Navigate(step)

FormatSpec == Init /\ [][FormatNext]_vars

QuizNext ==
    \/ AutoStartEffect
    \/ TryAgain
    \/ StartWithTooFewWords
    \/ GenerateQuizQuestionSucceeds
    \/ GenerateQuizQuestionOffShape
    \/ GenerateQuizQuestionFails
    \/ \E option \in CurrentOptions : handleAnswer(option)
    \/ \E k \in DOMAIN timers : TimerFires(k)
    \/ TakeAnotherQuiz

QuizSpec == QuizInit /\ [][QuizNext]_vars

\* The quiz session with a provider that may put the empty string among the
\* options of a question.
BlankOptionNext ==
    \/ AutoStartEffect
    \/ TryAgain
    \/ GenerateQuizQuestionSucceeds
    \/ GenerateQuizQuestionBlankOption
    \/ GenerateQuizQuestionFails
    \/ \E option \in CurrentOptions : handleAnswer(option)
    \/ \E k \in DOMAIN timers : TimerFires(k)
    \/ TakeAnotherQuiz

BlankOptionSpec == QuizInit /\ [][BlankOptionNext]_vars

\* App alone: its callbacks called with records drawn from AppRecords.
AppInit ==
    /\ AppInitial
    /\ LookupInitial
    /\ QuizInitial
    /\ searches = {}
    /\ refetches = {}
    /\ prons = {}
    /\ lastSettled = [id |-> 0, outcome |-> "none"]
    /\ calls = [search |-> 0, refetch |-> 0, quiz |-> 0, offShape |-> 0]
    /\ pronIssued = [w \in {"apple", "bee"} |-> 0]

AppNext ==
    \/ SavedWordsEffect
    \/ \E newWordsData \in AppBatches : AddToHistory(newWordsData)
    \/ \E updatedWord \in AppRecords : UpdateHistoryItem(updatedWord)
    \/ \E word \in AppRecords : ToggleSaveWord(word)

AppSpec == AppInit /\ [][AppNext]_vars

\* Either session, restricted to the operations that set or reset a loading
\* state and with every provider call returning in the end: a call in flight
\* is not left without its return for ever.
LiveInit == Init \/ QuizInit

LiveNext ==
    \/ LookupMountEffect
    \/ \E raw \in RawInputs : handleSearch(raw)
    \/ FetchWordDataSucceeds
    \/ FetchWordDataFails
    \/ \E g \in Grades : ChangeGradeLevel(g)
    \/ FetchPartialSucceeds
    \/ FetchPartialFails
    \/ \E word \in ClickedWords : handleHistoryClick(word)
    \/ AutoStartEffect
    \/ TryAgain
    \/ GenerateQuizQuestionSucceeds
    \/ GenerateQuizQuestionFails

LiveSpec ==
    /\ LiveInit
    /\ [][LiveNext]_vars
    /\ WF_vars(FetchWordDataSucceeds \/ FetchWordDataFails)
    /\ WF_vars(FetchPartialSucceeds \/ FetchPartialFails)
    /\ WF_vars(GenerateQuizQuestionSucceeds \/ GenerateQuizQuestionFails)

----------------------------------------------------------------------------
(* Properties of the lookup session (Spec) *)

\* The records a search's calls fetch.
Fetched(s) == [i \in DOMAIN s.words |-> fetchWordData(s.words[i], s.grade)]

\* The step in which search s settles, with the given outcome.
Settles(s, outcome) == lastSettled' = [id |-> s.id, outcome |-> outcome]

\* The entries of a list for a word, ignoring case.
EntriesFor(list, w) ==
    SelectSeqBy(list, {r \in Range(list) : toLowerCase(r.word) = toLowerCase(w)})

\* C1: History never holds two entries whose words are equal ignoring case.
HistoryWordsUnique ==
    \A i, j \in DOMAIN history :
        i # j => toLowerCase(history[i].word) # toLowerCase(history[j].word)

\* C2 as stated: after a search has fetched a record for a word that History
\* already has, History holds the newly fetched record.
MostRecentFetchWins ==
    [][\A s \in searches : Settles(s, "resolved") =>
          \A i \in DOMAIN s.words :
              HasWord(history, s.words[i]) => Fetched(s)[i] \in Range(history')]_vars

\* C2 as amended: after a search has fetched a record for a word that History
\* already has, History still holds its earlier entries for that word,
\* unchanged, and the newly fetched record is in results only.
EarlierRecordStays ==
    [][\A s \in searches : Settles(s, "resolved") =>
          \A i \in DOMAIN s.words :
              HasWord(history, s.words[i]) =>
                  /\ EntriesFor(history', s.words[i]) = EntriesFor(history, s.words[i])
                  /\ results'[i] = Fetched(s)[i]]_vars

\* A search has shown a record for a word whose History entry is another one.
EarlierRecordStaysWitness ==
    /\ lastSettled.outcome = "resolved"
    /\ calls.refetch = 0 /\ pronIssued = [w \in {"apple", "bee"} |-> 0]
    /\ \E i \in DOMAIN results :
          /\ HasWord(history, results[i].word)
          /\ results[i] \notin Range(history)
          /\ EntriesFor(history, results[i].word) = <<fetchWordData("bee", InitialGrade)>>

\* C3: a failing fetch fails its whole search: the error message is set, the
\* loading flag reset, the search is over, and results and History are as
\* they were.
SearchFailsAsAWhole ==
    [][/\ FetchWordDataFails => \E s \in searches : Settles(s, "rejected")
       /\ \A s \in searches : Settles(s, "rejected") =>
             /\ error' \in {SearchErrorMessage(f) : f \in Failures}
             /\ isLoading' = FALSE
             /\ results' = results
             /\ history' = history
             /\ \A t \in searches' : t.id # s.id]_vars

\* A search has failed: nothing is shown, nothing was added to History.
SearchFailsAsAWholeWitness ==
    /\ lastSettled.outcome = "rejected"
    /\ error \in {SearchErrorMessage(f) : f \in Failures}
    /\ ~isLoading
    /\ results = <<>>
    /\ history = <<>>
    /\ searches = {}

\* C4: a search that completes successfully leaves results equal to the
\* records it fetched, currentIndex 0 and every fetched word in History.
SearchSuccessShowsFetched ==
    [][\A s \in searches : Settles(s, "resolved") =>
          /\ results' = Fetched(s)
          /\ currentIndex' = 0
          /\ \A i \in DOMAIN s.words : HasWord(history', s.words[i])]_vars

\* C5: starting a search cancels none in flight; History never loses a word;
\* and a search that overlapped another one, on completing, puts its records
\* in results and has its words in History.
OverlappingSearchesBothComplete ==
    [][/\ calls'.search > calls.search =>
             \A s \in searches : \E t \in searches' : t.id = s.id /\ t.got = s.got
       /\ \A j \in DOMAIN history : HasWord(history', history[j].word)
       /\ \A s \in searches : (s.overlapped /\ Settles(s, "resolved")) =>
             /\ results' = Fetched(s)
             /\ \A i \in DOMAIN s.words : HasWord(history', s.words[i])]_vars

\* The search issued first completed last, after the second one, and its
\* records are the ones shown.
OverlappingSearchesWitness ==
    /\ calls.search = 2
    /\ lastSettled = [id |-> 1, outcome |-> "resolved"]
    /\ searches = {}
    /\ results = <<fetchWordData("Bee", InitialGrade), fetchWordData("bee", InitialGrade)>>
    /\ HasWord(history, "apple")

\* The fields of a record an audience-level change leaves alone.
SameButAudience(a, b) ==
    /\ a.word = b.word
    /\ a.definition = b.definition
    /\ a.difficulty = b.difficulty
    /\ a.pronunciationAudio = b.pronunciationAudio

\* C6: a change of audience level issues one refetch, for the displayed
\* record, and the refetch's return changes only exampleSentences and
\* simplifiedExplanation of that record, in results and in History.
RefetchChangesOnlyAudienceFields ==
    [][/\ \A op \in refetches' \ refetches :
             /\ op.word = currentWordData.word
             /\ refetches' = refetches \cup {op}
       /\ \A op \in refetches \ refetches' :
             /\ Len(results') = Len(results)
             /\ \A i \in DOMAIN results :
                   IF i = op.currentIndex + 1 /\ results[i] # undefined
                   THEN SameButAudience(results[i], results'[i])
                   ELSE results'[i] = results[i]
             /\ Len(history') = Len(history)
             /\ \A j \in DOMAIN history :
                   IF toLowerCase(history[j].word) = toLowerCase(op.word)
                   THEN SameButAudience(history[j], history'[j])
                   ELSE history'[j] = history[j]]_vars

\* C7: getPronunciation is issued at most once for a word.
PronunciationFetchedOnce ==
    \A w \in DOMAIN pronIssued : pronIssued[w] <= 1

\* C17: handleHistoryClick with a word of History sets results to History
\* oldest first and currentIndex to a position of that word (ignoring case),
\* error to null and isLoading to false; with any other word it changes
\* nothing.
HistoryClickShowsHistory ==
    [][\A w \in ClickedWords : handleHistoryClick(w) =>
          IF HasWord(history, w)
          THEN /\ results' = Reverse(history)
               /\ \A i \in DOMAIN history : results'[i] = history[Len(history) + 1 - i]
               /\ currentIndex' \in 0..(Len(results') - 1)
               /\ toLowerCase(results'[currentIndex' + 1].word) = toLowerCase(w)
               /\ error' = null
               /\ isLoading' = FALSE
          ELSE UNCHANGED vars]_vars

\* The click on apple, the newer of two History entries, while a search is
\* in flight: History is shown oldest first, apple at index 1, not loading.
HistoryClickShowsHistoryWitness ==
    /\ history = <<fetchWordData("apple", InitialGrade), fetchWordData("bee", InitialGrade)>>
    /\ results = <<fetchWordData("bee", InitialGrade), fetchWordData("apple", InitialGrade)>>
    /\ currentIndex = 1
    /\ error = null
    /\ ~isLoading
    /\ searches # {}

\* C22: whenever results is non-empty, currentIndex is one of its positions.
CurrentIndexInResults ==
    results # <<>> => currentIndex \in 0..(Len(results) - 1)

\* C23: the return of a refetch or of a pronunciation fetch leaves, at every
\* position of results, the word that was there.
LateWriteKeepsWords ==
    [][((\E op \in refetches : op \notin refetches') \/ (\E op \in prons : op \notin prons')) =>
          \A i \in DOMAIN results :
              results[i] # undefined =>
                  /\ results'[i] # undefined
                  /\ results'[i].word = results[i].word]_vars

\* C24: the return of a refetch leaves the pronunciationAudio that the
\* records of its word have in results and in History, and the return of a
\* pronunciation fetch leaves their explanation and examples.
NoLostUpdate ==
    [][/\ \A op \in refetches : op \notin refetches' =>
             /\ \A i \in DOMAIN results :
                   (results[i] # undefined /\ results[i].word = op.word) =>
                       results'[i].pronunciationAudio = results[i].pronunciationAudio
             /\ \A j \in DOMAIN history :
                   history[j].word = op.word =>
                       history'[j].pronunciationAudio = history[j].pronunciationAudio
       /\ \A op \in prons : op \notin prons' =>
             /\ \A i \in DOMAIN results :
                   (results[i] # undefined /\ results[i].word = op.word) =>
                       /\ results'[i].simplifiedExplanation = results[i].simplifiedExplanation
                       /\ results'[i].exampleSentences = results[i].exampleSentences
             /\ \A j \in DOMAIN history :
                   history[j].word = op.word =>
                       /\ history'[j].simplifiedExplanation = history[j].simplifiedExplanation
                       /\ history'[j].exampleSentences = history[j].exampleSentences]_vars

\* C25: the completion of a search while isLoading is set (no history click
\* has reset it) leaves isLoading set when another search is still in flight.
LoadingWhileSearchPending ==
    [][(/\ isLoading
        /\ \E s \in searches : \A t \in searches' : t.id # s.id
        /\ searches' # {}) => isLoading']_vars

\* C26: when the last refetch in flight returns for the record on display,
\* with no failure since the audience level was last changed, that record
\* has, in results and in History, the explanation and the examples made for
\* the selected audience level.
LatestLevelWins ==
    [][\A op \in refetches :
          (/\ refetches' = {}
           /\ error' = null
           /\ op.currentIndex = currentIndex
           /\ currentWordData # undefined
           /\ currentWordData.word = op.word) =>
              /\ results'[currentIndex + 1].simplifiedExplanation = gradeLevel
              /\ results'[currentIndex + 1].exampleSentences = gradeLevel
              /\ \A j \in DOMAIN history :
                    history[j].word = op.word =>
                        /\ history'[j].simplifiedExplanation = gradeLevel
                        /\ history'[j].exampleSentences = gradeLevel]_vars

\* A record as the response schema of fetchWordData requires it.
MatchesWordDataShape(r) ==
    /\ r # undefined
    /\ \A field \in {"word", "definition", "exampleSentences",
                       "simplifiedExplanation", "difficulty"} :
          field \in DOMAIN r /\ r[field] # Missing

\* C18: every record in results and in History has the required fields.
RecordsMatchShape ==
    /\ \A i \in DOMAIN results : results[i] # undefined => MatchesWordDataShape(results[i])
    /\ \A j \in DOMAIN history : MatchesWordDataShape(history[j])

----------------------------------------------------------------------------
(* Properties of the quiz session (QuizSpec) *)

\* C8: with fewer than four words the quiz stays idle, issues no
\* generateQuizQuestion call, and a start attempt sets the error message.
TooFewWordsNeverStart ==
    [][Len(words) < MinQuizWords =>
          /\ quizState = "idle" /\ quizState' = "idle"
          /\ gens' = {}
          /\ calls'.quiz = calls.quiz
          /\ quizError' = TooFewWordsMessage]_vars

\* startQuiz has been called with three words.
TooFewWordsWitness ==
    /\ Len(words) < MinQuizWords
    /\ quizError = TooFewWordsMessage
    /\ quizState = "idle"
    /\ gens = {}

\* The step in which generation g ends.
Ends(g) == g \in gens /\ \A h \in gens' : h.id # g.id

\* C9: a failing generateQuizQuestion call ends the generation in idle with
\* an error and no questions; a generation that ends in active has a
\* question for every one of its words.
QuizFailsAsAWhole ==
    [][/\ GenerateQuizQuestionFails =>
             /\ quizState = "generating" /\ quizState' = "idle"
             /\ quizError' # null
             /\ questions' = <<>>
       /\ \A g \in gens : Ends(g) =>
             \/ /\ quizState' = "idle" /\ quizError' # null /\ questions' = <<>>
             \/ /\ quizState' = "active"
                /\ Len(questions') = Len(g.quizWords)
                /\ \A i \in DOMAIN g.quizWords : questions'[i].word = g.quizWords[i].word]_vars

\* A generation has failed and the quiz is back in idle, without questions.
QuizFailsAsAWholeWitness ==
    /\ quizState = "idle"
    /\ quizError \in {QuizErrorMessage(f) : f \in Failures}
    /\ questions = <<>>
    /\ gens = {}
    /\ calls.quiz = 1

\* C10: in idle with an error the quiz stays as it is, issuing no call,
\* until startQuiz is called from the Try Again button.
NoAutomaticRetry ==
    [][(quizState = "idle" /\ quizError # null) =>
          \/ UNCHANGED <<quizState, quizError, gens, calls>>
          \/ /\ Len(words) < MinQuizWords
             /\ UNCHANGED <<quizState, gens, calls>>
          \/ \E g \in gens' \ gens : g.by = "click"]_vars

\* The quiz is generating again after a failure, started from Try Again.
NoAutomaticRetryWitness ==
    /\ quizState = "generating"
    /\ calls.quiz = 2
    /\ \E g \in gens : g.by = "click"

\* C11: every question of an active quiz has exactly four options, pairwise
\* distinct, and its correctAnswer is one of them.
ActiveQuestionsWellFormed ==
    quizState = "active" =>
        \A i \in DOMAIN questions :
            /\ Len(questions[i].options) = 4
            /\ Cardinality(Range(questions[i].options)) = 4
            /\ questions[i].correctAnswer \in Range(questions[i].options)

\* C12: a recorded answer stays as it is for the rest of its quiz, an answer
\* given to an answered question schedules no advance, and the answers given
\* are as many as the advances made and pending, of which at most one is
\* pending.
AnswerRecordedOnce ==
    [][/\ calls'.quiz = calls.quiz =>
             \A i \in DOMAIN userAnswers :
                 Answered(i) => i \in DOMAIN userAnswers' /\ userAnswers'[i] = userAnswers[i]
       /\ Len(timers') > Len(timers) =>
             /\ ~Answered(currentQuestionIndex)
             /\ DOMAIN userAnswers' = DOMAIN userAnswers \cup {currentQuestionIndex}
       /\ Len(timers') <= 1
       /\ quizState' = "active" =>
             Cardinality(DOMAIN userAnswers') = currentQuestionIndex' + Len(timers')
       /\ quizState' = "finished" =>
             Cardinality(DOMAIN userAnswers') = Len(questions')]_vars

\* The second question has its answer and the advance to the third is
\* pending: a further press of an option button finds it answered.
AnswerRecordedOnceWitness ==
    /\ quizState = "active"
    /\ currentQuestionIndex = 1
    /\ Answered(0) /\ Answered(1)
    /\ Len(timers) = 1

\* C13: the finished screen's score is the number of questions whose
\* recorded answer is their correctAnswer, and its percentage is the integer
\* nearest to 100 * score / number of questions (3 of 5 being 60).
ScoreCountsMatchingAnswers ==
    quizState = "finished" =>
        LET n == Len(questions)
            matching == {i \in 0..(n - 1) :
                            /\ i \in DOMAIN userAnswers
                            /\ userAnswers[i] = questions[i + 1].correctAnswer}
        IN  /\ n > 0
            /\ calculateScore = Cardinality(matching)
            /\ 2 * (100 * calculateScore - percentage * n) <= n
            /\ 2 * (percentage * n - 100 * calculateScore) < n
            /\ (n = 5 /\ Cardinality(matching) = 3) =>
                   (calculateScore = 3 /\ percentage = 60)

\* A quiz of five questions has finished with three right answers.
ScoreCountsMatchingAnswersWitness ==
    /\ quizState = "finished"
    /\ Len(questions) = 5
    /\ Cardinality({i \in DOMAIN userAnswers :
                        userAnswers[i] = questions[i + 1].correctAnswer}) = 3
    /\ calculateScore = 3
    /\ percentage = 60

\* C14: the restart from finished leaves the quiz idle without questions and
\* without error; in that state, with four words, the automatic start is
\* ready; a start leaves the quiz generating with no recorded answer and the
\* question index 0, and so is the quiz when it becomes active.
RestartStartsAfresh ==
    [][/\ (quizState = "finished" /\ quizState' # "finished") =>
             /\ quizState' = "idle"
             /\ questions' = <<>>
             /\ quizError' = null
       /\ (/\ quizState = "idle" /\ questions = <<>> /\ quizError = null
           /\ Len(words) >= MinQuizWords /\ calls.quiz < MaxQuizStarts) =>
             ENABLED AutoStartEffect
       /\ (quizState = "idle" /\ quizState' # "idle") =>
             /\ quizState' = "generating"
             /\ userAnswers' = NoAnswers
             /\ currentQuestionIndex' = 0
       /\ (quizState # "active" /\ quizState' = "active") =>
             /\ userAnswers' = NoAnswers
             /\ currentQuestionIndex' = 0
             /\ calculateScore' = 0]_vars

\* After a finished quiz with answers the automatic start has begun the
\* next one.
RestartStartsAfreshWitness ==
    /\ quizState = "generating"
    /\ calls.quiz = 2
    /\ \E g \in gens : g.by = "effect"
    /\ userAnswers = NoAnswers
    /\ currentQuestionIndex = 0
    /\ questions = <<>>

\* C21: in an active quiz questions is non-empty, currentQuestionIndex is one
\* of its positions, every index below it has a recorded answer and no index
\* above it has one; in a finished quiz the indices with a recorded answer
\* are exactly those of the questions.
QuizProgressInOrder ==
    /\ quizState = "active" =>
          /\ Len(questions) > 0
          /\ currentQuestionIndex \in 0..(Len(questions) - 1)
          /\ \A i \in 0..(currentQuestionIndex - 1) : i \in DOMAIN userAnswers
          /\ \A i \in DOMAIN userAnswers : i <= currentQuestionIndex
    /\ quizState = "finished" =>
          DOMAIN userAnswers = 0..(Len(questions) - 1)

----------------------------------------------------------------------------
(* Properties of App's callbacks (AppSpec) *)

\* C15: updateHistoryItem with a record puts the record in the place of
\* every History entry of its word (ignoring case) and leaves every other
\* entry, the length and the order as they were; without such an entry
\* History stays as it is.
UpdateReplacesInPlace ==
    [][\A r \in AppRecords : UpdateHistoryItem(r) =>
          /\ Len(history') = Len(history)
          /\ \A j \in DOMAIN history :
                history'[j] = IF toLowerCase(history[j].word) = toLowerCase(r.word)
                              THEN r ELSE history[j]
          /\ ~HasWord(history, r.word) => history' = history]_vars

\* Both History entries of bee (ignoring case) have been replaced by one
\* record, behind the entry of apple, which is as it was fetched.
UpdateReplacesInPlaceWitness ==
    history = << fetchWordData("apple", InitialGrade),
                 fetchWordData("Bee", "6th Grader"), fetchWordData("Bee", "6th Grader") >>

\* The words of a list, ignoring case.
WordsOf(list) == {toLowerCase(list[i].word) : i \in DOMAIN list}

\* C16: toggleSaveWord appends the record when no saved entry has its word
\* (ignoring case) and otherwise removes the entries that have it; a second
\* toggle of the record brings the saved words back to those before the
\* first; History is not changed.
ToggleAddsOrRemoves ==
    [][\A r \in AppRecords : ToggleSaveWord(r) =>
          /\ IF toLowerCase(r.word) \in WordsOf(savedWords)
             THEN /\ WordsOf(savedWords') = WordsOf(savedWords) \ {toLowerCase(r.word)}
                  /\ \A i \in DOMAIN savedWords' : savedWords'[i] \in Range(savedWords)
             ELSE savedWords' = Append(savedWords, r)
          /\ WordsOf(toggleSaveWord(savedWords', r)) = WordsOf(savedWords)
          /\ history' = history]_vars

\* apple was removed from the stored words and added again, behind bee,
\* with History holding it all along.
ToggleAddsOrRemovesWitness ==
    /\ savedWords = <<fetchWordData("bee", InitialGrade), fetchWordData("apple", InitialGrade)>>
    /\ HasWord(history, "apple")

\* C19: whatever the storage key held at startup, savedWords is an array of
\* WordData records, and the effect has written an array back.
StoredWordsLoadAsRecords ==
    /\ \A i \in DOMAIN savedWords : IsWordData(savedWords[i])
    /\ Persisted => storage.kind = "json"

----------------------------------------------------------------------------
(* Properties of both sessions with returning provider calls (LiveSpec) *)

\* C20: every search in flight comes to its end with isLoading reset, every
\* refetch to its end with isUpdating reset, every quiz generation to its
\* end with the quiz active or idle; and with no call of its kind in flight
\* no loading state is set.
LoadingStatesEnd ==
    /\ (searches # {}) ~> (searches = {} /\ ~isLoading)
    /\ (refetches # {}) ~> (refetches = {} /\ ~isUpdating)
    /\ (gens # {}) ~> (gens = {} /\ quizState \in {"active", "idle"})
    /\ [][/\ (\E op \in refetches : op \notin refetches') => isUpdating' = FALSE
          /\ (\E s \in searches : \A t \in searches' : t.id # s.id) => isLoading' = FALSE
          /\ (\E g \in gens : Ends(g)) => quizState' \in {"active", "idle"}]_vars
    /\ [](searches = {} => ~isLoading)
    /\ [](refetches = {} => ~isUpdating)
    /\ [](gens = {} => quizState # "generating")

\* Two searches, the later one failing, and a refetch have come to their
\* ends, and nothing is loading.
LoadingStatesEndWitness ==
    /\ lastSettled = [id |-> 2, outcome |-> "rejected"]
    /\ calls.refetch > 0
    /\ searches = {} /\ refetches = {}
    /\ ~isLoading /\ ~isUpdating

====
